---- MODULE Spec2Model ----
(***************************************************************************)
(* A model of tensorrt_llm/_torch/auto_deploy/shim/demollm.py:             *)
(*   - DemoEngine._assign_pages and DemoEngine.generate_tokens_batched     *)
(*     (the paged-cache allocator and the decode loop), specification Spec *)
(*   - DemoGenerationExecutor._run_engine (the per-rank batching loop      *)
(*     around the collective max-reduction), specification SyncSpec        *)
(***************************************************************************)
EXTENDS Integers, Sequences, FiniteSets, TLC

VARIABLES
    \* ---- DemoEngine / generate_tokens_batched ----
    pc,                \* position of the engine: idle, assign, forward, post, done, ...
    page_size,         \* si.page_size
    num_pages,         \* si.num_pages
    sequence_lengths,  \* si.sequence_lengths
    input_positions,   \* si.input_positions
    page_assignments,  \* si.page_assignments
    requests,          \* the argument of the running (or last) generate_tokens_batched call
    new_tokens,        \* new_tokens, the per-sequence output buffers
    idxs_stop,         \* idxs_stop
    idx,               \* the loop variable i of the decode loop
    outputs,           \* the value the call returned
    generated,         \* history: the tokens the sampler returned, per sequence, up to and
                       \* including the first one that completes a stop sequence
    nForward,          \* history: number of _compute_logits calls in this call
    pages_before,      \* history: si.page_assignments when _assign_pages was last entered
    \* ---- DemoGenerationExecutor._run_engine, one copy per rank ----
    stream,            \* what the parent process submits, in order (requests, then maybe None)
    delivered,         \* per rank: how many items of stream reached its input_queue
    input_queue,       \* per rank: items waiting in input_queue
    rank_pc,           \* per rank: position in _run_engine
    request_list,      \* per rank: request_list
    num_max_requests,  \* per rank: num_max_requests
    output_queue,      \* per rank: what was put on output_queue
    local_counts,      \* history, per rank: len(request_list) handed to each all_reduce
    invoked,           \* history, per rank: the request_list of each generate_tokens_batched call
    sentinel_read,     \* history, per rank: the rank has read None from input_queue
    timed_out,         \* history, per rank: a get(timeout=1.0) raised Empty
    catchup_reads      \* history, per rank: get(timeout=1.0) calls made in the current round

engine_vars == <<pc, page_size, num_pages, sequence_lengths, input_positions,
                 page_assignments, requests, new_tokens, idxs_stop, idx, outputs,
                 generated, nForward, pages_before>>

sync_vars == <<stream, delivered, input_queue, rank_pc, request_list, num_max_requests,
               output_queue, local_counts, invoked, sentinel_read, timed_out,
               catchup_reads>>

vars == <<engine_vars, sync_vars>>

-----------------------------------------------------------------------------
(* Bounds of the model *)

\* longest prompt of a single-request call
MaxPrompt == 5
\* longest prompt in a two-request call
MaxPromptBatched == 3
\* largest sampling_params.max_tokens of a single-request call
MaxTokens == 5
\* largest sampling_params.max_tokens of a two-request call
MaxTokensBatched == 3
\* si.num_pages of the engine under test
NumPages == 3
\* world_size: the number of ranks running _run_engine
WorldSize == 2
\* the most requests the parent process submits
MaxRequests == 4
\* si.max_batch_size of every rank's engine
MaxBatchSize == 3
\* the values si.page_size is drawn from
PageSizes == {2, 4}
\* the vocabulary the sampler draws from
Tokens == {7, 8}
\* the values sampling_params._get_stop_words() is drawn from
StopWordLists == { <<>>, << <<7, 8>> >>, << <<8>>, <<7, 8>> >>, << <<7, 8>>, <<8>> >> }

-----------------------------------------------------------------------------
(* Helpers *)

Range(s) == { s[i] : i \in DOMAIN s }

RECURSIVE SumSeq(_)
SumSeq(s) == IF s = <<>> THEN 0 ELSE Head(s) + SumSeq(Tail(s))

SetMax(S) == CHOOSE m \in S : \A x \in S : x <= m

SetMin(S) == CHOOSE m \in S : \A x \in S : m <= x

\* ceil(a / b) for a >= 0, b > 0
CeilDiv(a, b) == (a + b - 1) \div b

IsPrefix(s, t) == Len(s) <= Len(t) /\ SubSeq(t, 1, Len(s)) = s

\* Python's s[-n:] for n >= 0 (s[-0:] is the whole list)
PySuffix(s, n) == IF n = 0 \/ n >= Len(s) THEN s ELSE SubSeq(s, Len(s) - n + 1, Len(s))

\* Python's "del s[-n:]" for n >= 0
PyDelSuffix(s, n) == IF n = 0 \/ n >= Len(s) THEN <<>> ELSE SubSeq(s, 1, Len(s) - n)

-----------------------------------------------------------------------------
(* Inputs of generate_tokens_batched *)

\* largest max_tokens tried for a call with n requests
MaxNewTokens(n) == IF n <= 1 THEN MaxTokens ELSE MaxTokensBatched

\* the SamplingParams fields the decode loop reads
SamplingParamsSet(n) ==
    [ max_tokens : 0 .. MaxNewTokens(n),
      stop_words : StopWordLists,
      include_stop_str_in_output : BOOLEAN,
      best_of : {1} ]

\* a GenerationRequest: its prompt (only the length of prompt_token_ids is read) and its
\* sampling_params
Request(p, sp) == [ prompt_len |-> p, sampling_params |-> sp ]

\* request lists that pass the checks of lines 89-92
AcceptedLists ==
    { << Request(p, sp) >> : p \in 1 .. MaxPrompt, sp \in SamplingParamsSet(1) }
    \cup { << Request(p[1], sp), Request(p[2], sp) >> :
             p \in (1 .. MaxPromptBatched) \X (1 .. MaxPromptBatched),
             sp \in SamplingParamsSet(2) }

\* the sampling parameters the rejected lists are built from
RejectedBase ==
    { sp \in SamplingParamsSet(2) : sp.max_tokens = MaxTokensBatched /\ Len(sp.stop_words) = 1 }

\* request lists with best_of # 1, or whose requests differ in their sampling parameters
RejectedLists ==
    { << Request(p, [sp EXCEPT !.best_of = 2]) >> : p \in {1, MaxPrompt}, sp \in RejectedBase }
    \cup { << Request(1, [sp EXCEPT !.best_of = 2]), Request(2, [sp EXCEPT !.best_of = 2]) >> :
             sp \in RejectedBase }
    \cup { << Request(1, sp), Request(2, [sp EXCEPT !.max_tokens = @ - 1]) >> :
             sp \in RejectedBase }
    \cup { << Request(1, sp), Request(2, [sp EXCEPT !.include_stop_str_in_output = ~@]) >> :
             sp \in RejectedBase }

RequestLists == { <<>> } \cup AcceptedLists \cup RejectedLists

-----------------------------------------------------------------------------
(* SequenceInfo: the operations demollm.py calls on cache_seq_interface.info *)

\* SequenceInfo.reset(): no active sequence is left
ResetLengths == <<>>

\* SequenceInfo.nest_sequences(seqs) after reset(): one sequence per entry, each at
\* input position 0 and owning no page
NestLengths(lens) == lens

NestPositions(lens) == [ b \in DOMAIN lens |-> 0 ]

NestPages(lens) == [ b \in DOMAIN lens |-> <<>> ]

\* SequenceInfo.update_pos(seq_lens): input_positions += seq_lens
UpdatePos(positions, lens) == [ b \in DOMAIN positions |-> positions[b] + lens[b] ]

\* SequenceInfo.nest_sequences(token_ids) in the decode stage: one new token per sequence
NestTokenIds(token_ids) == [ b \in DOMAIN token_ids |-> 1 ]

\* SequenceInfo.assign_cache_loc(updated_assignments)
AssignCacheLoc(updated_assignments) == updated_assignments

-----------------------------------------------------------------------------
(* DemoEngine._assign_pages *)

\* line 70
TotalLens(seq_lens, positions) == [ b \in DOMAIN seq_lens |-> seq_lens[b] + positions[b] ]

\* line 73 without the pages already assigned
FreePagesIgnoringOwned(n_pages, assignments) == 0 .. n_pages - 1

\* line 73
FreePages(n_pages, assignments) ==
    (0 .. n_pages - 1) \ UNION { Range(assignments[b]) : b \in DOMAIN assignments }

\* lines 76-77 (// is floor division, and so is \div)
NumExtraPagesFloor(t_l, n_owned, ps) == (t_l - n_owned * ps) \div ps

NumExtraPages(t_l, n_owned, ps) ==
    LET extra_tokens == t_l - n_owned * ps
    IN  (extra_tokens \div ps) + (IF extra_tokens > 0 THEN 1 ELSE 0)

\* line 78 with a pop() that is skipped when free_pages is empty
RECURSIVE PopPagesWhileAny(_, _)
PopPagesWhileAny(free, k) ==
    IF k <= 0 \/ free = {} THEN { <<>> }
    ELSE UNION { { <<p>> \o rest : rest \in PopPagesWhileAny(free \ {p}, k - 1) } : p \in free }

\* line 78, [free_pages.pop() for _ in range(k)]: every list the pops can build, set.pop()
\* returning an arbitrary element; the empty set when a pop() finds free_pages empty
\* (KeyError)
RECURSIVE PopPages(_, _)
PopPages(free, k) ==
    IF k <= 0 THEN { <<>> }
    ELSE UNION { { <<p>> \o rest : rest \in PopPages(free \ {p}, k - 1) } : p \in free }

\* line 78 without "pages +"
ExtendPagesDroppingOwned(pages, popped) == popped

\* line 78, pages + [...]
ExtendPages(pages, popped) == pages \o popped

\* lines 75-78 from sequence b on: every updated_assignments the loop can build, the empty
\* set when it raises KeyError
RECURSIVE AssignLoop(_, _, _, _, _)
AssignLoop(b, total_lens, assignments, free, ps) ==
    IF b > Len(assignments) THEN { <<>> }
    ELSE LET n == NumExtraPages(total_lens[b], Len(assignments[b]), ps)
         IN  UNION { { << ExtendPages(assignments[b], popped) >> \o rest :
                         rest \in AssignLoop(b + 1, total_lens, assignments,
                                             free \ Range(popped), ps) } :
                     popped \in PopPages(free, n) }

\* lines 69-78: the values updated_assignments can have at line 79
UpdatedAssignments ==
    AssignLoop(1, TotalLens(sequence_lengths, input_positions), page_assignments,
               FreePages(num_pages, page_assignments), page_size)

-----------------------------------------------------------------------------
(* DemoEngine.generate_tokens_batched *)

batch_size == Len(sequence_lengths)

sampling_params == requests[1].sampling_params

\* lines 89-92 without the first assertion
ParamsAcceptedBestOfOnly(reqs) == reqs[1].sampling_params.best_of = 1

\* lines 89-92: the two assertions
ParamsAccepted(reqs) ==
    /\ \A i \in DOMAIN reqs : reqs[i].sampling_params = reqs[1].sampling_params
    /\ reqs[1].sampling_params.best_of = 1

\* line 103
InitialStopIdxOffByOne(max_tokens) == max_tokens

InitialStopIdx(max_tokens) == max_tokens - 1

\* lines 131-138 without line 137
RECURSIVE StopCheckKeepingStopTokens(_, _, _, _, _, _)
StopCheckKeepingStopTokens(buf, i_stop, i, stop_tokens, k, include) ==
    IF k > Len(stop_tokens) THEN [ tokens |-> buf, i_stop |-> i_stop ]
    ELSE IF PySuffix(buf, Len(stop_tokens[k])) = stop_tokens[k]
         THEN [ tokens |-> buf,
                i_stop |-> IF include THEN i ELSE i - Len(stop_tokens[k]) ]
         ELSE StopCheckKeepingStopTokens(buf, i_stop, i, stop_tokens, k + 1, include)

\* lines 131-138: the stop check on a buffer, from stop sequence k on
RECURSIVE StopCheck(_, _, _, _, _, _)
StopCheck(buf, i_stop, i, stop_tokens, k, include) ==
    IF k > Len(stop_tokens) THEN [ tokens |-> buf, i_stop |-> i_stop ]
    ELSE LET stop_seq == stop_tokens[k]
             stop_len == Len(stop_seq)
         IN  IF PySuffix(buf, stop_len) = stop_seq
             THEN IF include
                  THEN [ tokens |-> buf, i_stop |-> i ]
                  ELSE [ tokens |-> PyDelSuffix(buf, stop_len), i_stop |-> i - stop_len ]
             ELSE StopCheck(buf, i_stop, i, stop_tokens, k + 1, include)

\* line 124: a sequence that stopped before step i is skipped
AlreadyStoppedNever(i_stop, i) == FALSE

AlreadyStopped(i_stop, i) == i_stop < i

\* lines 122-138 for one sequence
StepSequence(buf, i_stop, i, new_id, stop_tokens, include) ==
    IF AlreadyStopped(i_stop, i) THEN [ tokens |-> buf, i_stop |-> i_stop ]
    ELSE StopCheck(Append(buf, new_id), i_stop, i, stop_tokens, 1, include)

\* whether the tokens g end with the stop sequence stop_seq
EndsWith(g, stop_seq) ==
    Len(g) >= Len(stop_seq) /\ SubSeq(g, Len(g) - Len(stop_seq) + 1, Len(g)) = stop_seq

\* the stop sequences of stop_tokens the tokens g end with
MatchedStops(g, stop_tokens) == { k \in DOMAIN stop_tokens : EndsWith(g, stop_tokens[k]) }

\* the history of sampled tokens: the sampler's token is recorded unless an earlier one
\* already completed a stop sequence
Record(g, new_id, stop_tokens) ==
    IF MatchedStops(g, stop_tokens) # {} THEN g ELSE Append(g, new_id)

\* line 152 with any() for all()
AnyStopped(i, stops) == \E b \in DOMAIN stops : i >= stops[b]

\* line 152 with i > i_stop
AllStoppedStrict(i, stops) == \A b \in DOMAIN stops : i > stops[b]

\* line 152
AllStopped(i, stops) == \A b \in DOMAIN stops : i >= stops[b]

\* line 172 with <=
FinishReasonLessEqual(new_ids, max_tokens) ==
    IF Len(new_ids) <= max_tokens THEN "stop" ELSE "length"

\* line 172
FinishReason(new_ids, max_tokens) == IF Len(new_ids) < max_tokens THEN "stop" ELSE "length"

\* lines 161-162
SanityCheck(stops, bufs) == \A b \in DOMAIN stops : stops[b] + 1 = Len(bufs[b])

\* lines 167-178
Completions(bufs, max_tokens) ==
    [ b \in DOMAIN bufs |->
        [ token_ids |-> bufs[b], finish_reason |-> FinishReason(bufs[b], max_tokens) ] ]

\* lines 81-105: the call is entered with a list of requests
GenerateCall ==
    /\ pc = "idle"
    /\ \E reqs \in RequestLists :
         /\ requests' = reqs
         /\ IF Len(reqs) = 0
            THEN /\ pc' = "done"
                 /\ outputs' = <<>>
                 /\ UNCHANGED <<sequence_lengths, input_positions, page_assignments,
                                new_tokens, idxs_stop, idx, generated, nForward,
                                pages_before>>
            ELSE IF ~ParamsAccepted(reqs)
            THEN /\ pc' = "rejected"
                 /\ UNCHANGED <<sequence_lengths, input_positions, page_assignments,
                                new_tokens, idxs_stop, idx, outputs, generated, nForward,
                                pages_before>>
            ELSE LET lens == [ b \in DOMAIN reqs |-> reqs[b].prompt_len ]
                     max_tokens == reqs[1].sampling_params.max_tokens
                 IN  /\ sequence_lengths' = NestLengths(lens)
                     /\ input_positions' = NestPositions(lens)
                     /\ page_assignments' = NestPages(lens)
                     /\ new_tokens' = [ b \in DOMAIN reqs |-> <<>> ]
                     /\ idxs_stop' = [ b \in DOMAIN reqs |-> InitialStopIdx(max_tokens) ]
                     /\ generated' = [ b \in DOMAIN reqs |-> <<>> ]
                     /\ nForward' = 0
                     /\ idx' = 0
                     /\ outputs' = <<>>
                     /\ pages_before' = NestPages(lens)
                     /\ pc' = IF max_tokens > 0 THEN "assign" ELSE "post"
    /\ UNCHANGED <<page_size, num_pages>>
    /\ UNCHANGED sync_vars

\* line 109: _assign_pages, which ends in assign_cache_loc or in the KeyError of pop()
AssignPages ==
    /\ pc = "assign"
    /\ pages_before' = page_assignments
    /\ IF UpdatedAssignments = {}
       THEN /\ pc' = "error_pages"
            /\ UNCHANGED page_assignments
       ELSE /\ \E updated \in UpdatedAssignments :
                 page_assignments' = AssignCacheLoc(updated)
            /\ pc' = "forward"
    /\ UNCHANGED <<page_size, num_pages, sequence_lengths, input_positions, requests,
                   new_tokens, idxs_stop, idx, outputs, generated, nForward>>
    /\ UNCHANGED sync_vars

\* lines 112-138 and 150-153: the forward pass, the sampled tokens, the stop check and the
\* loop condition
ForwardStep ==
    /\ pc = "forward"
    /\ \E token_ids \in [ 1 .. batch_size -> Tokens ] :
         LET sp == sampling_params
             stepped == [ b \in 1 .. batch_size |->
                            StepSequence(new_tokens[b], idxs_stop[b], idx, token_ids[b],
                                         sp.stop_words, sp.include_stop_str_in_output) ]
             stops == [ b \in 1 .. batch_size |-> stepped[b].i_stop ]
         IN  /\ nForward' = nForward + 1
             /\ generated' = [ b \in 1 .. batch_size |->
                                 Record(generated[b], token_ids[b], sp.stop_words) ]
             /\ input_positions' = UpdatePos(input_positions, sequence_lengths)
             /\ sequence_lengths' = NestTokenIds(token_ids)
             /\ new_tokens' = [ b \in 1 .. batch_size |-> stepped[b].tokens ]
             /\ idxs_stop' = stops
             /\ IF AllStopped(idx, stops) \/ idx + 1 >= sp.max_tokens
                THEN pc' = "post" /\ idx' = idx
                ELSE pc' = "assign" /\ idx' = idx + 1
    /\ UNCHANGED <<page_size, num_pages, page_assignments, requests, outputs, pages_before>>
    /\ UNCHANGED sync_vars

\* lines 160-180: the sanity check and the completion outputs
Finish ==
    /\ pc = "post"
    /\ IF SanityCheck(idxs_stop, new_tokens)
       THEN /\ pc' = "done"
            /\ outputs' = Completions(new_tokens, sampling_params.max_tokens)
       ELSE /\ pc' = "assert_failed"
            /\ UNCHANGED outputs
    /\ UNCHANGED <<page_size, num_pages, sequence_lengths, input_positions,
                   page_assignments, requests, new_tokens, idxs_stop, idx, generated,
                   nForward, pages_before>>
    /\ UNCHANGED sync_vars

\* line 180: the call returns; its locals are gone, the SequenceInfo stays as it is
ReturnToCaller ==
    /\ pc = "done"
    /\ pc' = "idle"
    /\ requests' = <<>>
    /\ new_tokens' = <<>>
    /\ idxs_stop' = <<>>
    /\ generated' = <<>>
    /\ outputs' = <<>>
    /\ idx' = 0
    /\ nForward' = 0
    /\ pages_before' = <<>>
    /\ UNCHANGED <<page_size, num_pages, sequence_lengths, input_positions,
                   page_assignments>>
    /\ UNCHANGED sync_vars

SyncIdle ==
    /\ stream = <<>>
    /\ delivered = <<>>
    /\ input_queue = <<>>
    /\ rank_pc = <<>>
    /\ request_list = <<>>
    /\ num_max_requests = <<>>
    /\ output_queue = <<>>
    /\ local_counts = <<>>
    /\ invoked = <<>>
    /\ sentinel_read = <<>>
    /\ timed_out = <<>>
    /\ catchup_reads = <<>>

\* the engine after construction (lines 32-34)
Init ==
    /\ pc = "idle"
    /\ page_size \in PageSizes
    /\ num_pages = NumPages
    /\ sequence_lengths = ResetLengths
    /\ input_positions = <<>>
    /\ page_assignments = <<>>
    /\ requests = <<>>
    /\ new_tokens = <<>>
    /\ idxs_stop = <<>>
    /\ idx = 0
    /\ outputs = <<>>
    /\ generated = <<>>
    /\ nForward = 0
    /\ pages_before = <<>>
    /\ SyncIdle

Next ==
    \/ GenerateCall
    \/ AssignPages
    \/ ForwardStep
    \/ Finish
    \/ ReturnToCaller

Spec == Init /\ [][Next]_vars

-----------------------------------------------------------------------------
(* DemoGenerationExecutor._run_engine, one copy per rank *)

Ranks == 0 .. WorldSize - 1

\* the ranks that were given an output_queue (the others get None, line 252)
OutputRanks == { 0 }

\* what input_queue carries: (args, kwargs) with args[0] the request, here the 1-tuple of
\* the request; None, the falsy value that ends the loop of line 261, is the empty tuple
Inputs(request) == << request >>

None == << >>

\* lines 255-258 (called only with inputs that are not None)
Unpack(inputs) == inputs[1]

\* what the parent process submits: requests 1 .. n and then None, or MaxRequests
\* requests with no None yet (the items are delivered one by one, so the runs on a
\* shorter stream without None are the beginnings of the runs on this one)
Streams ==
    { [ i \in 1 .. MaxRequests |-> Inputs(i) ] }
    \cup { [ i \in 1 .. n |-> Inputs(i) ] \o << None >> : n \in 0 .. MaxRequests - 1 }

\* line 276: dist_ad.all_reduce(..., op=ReduceOp.MAX) over the ranks' values
ReduceMin(counts) == SetMin(counts)

AllReduceOp(counts) == SetMax(counts)

\* line 281: get(timeout=1.0) raises Empty, which nothing catches
TimeoutCaught == "generate"

TimeoutOutcome == "error_timeout"

\* line 267: the condition of the non-blocking drain loop
DrainMoreOffByOne(n) == n <= MaxBatchSize

DrainMore(n) == n < MaxBatchSize

\* line 278: the condition of the catch-up loop
NeedsCatchUpOffByOne(n, n_max) == n <= n_max

NeedsCatchUpNever(n, n_max) == FALSE

NeedsCatchUp(n, n_max) == n < n_max

\* lines 288-290: every element of outs is put on the output queue, in order
PutFirstOutput(queue, outs) == Append(queue, Head(outs))

PutOutputs(queue, outs) == queue \o outs

\* line 285 as _run_engine sees it: one list of completions per request, in order
\* (lines 166-180), each named here by the request it completes
EngineOutputs(reqs) == [ i \in DOMAIN reqs |-> << [ request |-> reqs[i] ] >> ]

\* the transport: the next submitted item reaches the input_queue of rank r
Deliver(r) ==
    /\ delivered[r] < Len(stream)
    /\ delivered' = [ delivered EXCEPT ![r] = @ + 1 ]
    /\ input_queue' = [ input_queue EXCEPT ![r] = Append(@, stream[delivered[r] + 1]) ]
    /\ UNCHANGED <<stream, rank_pc, request_list, num_max_requests, output_queue,
                   local_counts, invoked, sentinel_read, timed_out, catchup_reads>>
    /\ UNCHANGED engine_vars

\* lines 261-263: the blocking read that opens a round, or ends the loop on None
BlockingGet(r) ==
    /\ rank_pc[r] = "get"
    /\ input_queue[r] # << >>
    /\ LET inputs == Head(input_queue[r])
       IN  /\ input_queue' = [ input_queue EXCEPT ![r] = Tail(@) ]
           /\ IF inputs = None
              THEN /\ rank_pc' = [ rank_pc EXCEPT ![r] = "exited" ]
                   /\ sentinel_read' = [ sentinel_read EXCEPT ![r] = TRUE ]
                   /\ UNCHANGED request_list
              ELSE /\ rank_pc' = [ rank_pc EXCEPT ![r] = "drain" ]
                   /\ request_list' = [ request_list EXCEPT ![r] = << Unpack(inputs) >> ]
                   /\ UNCHANGED sentinel_read
    /\ UNCHANGED <<stream, delivered, num_max_requests, output_queue, local_counts,
                   invoked, timed_out, catchup_reads>>
    /\ UNCHANGED engine_vars

\* lines 266-270 and 275: one pass of the non-blocking drain; when it ends (the batch is
\* full, or get(block=False) raises Empty) the rank enters the all_reduce with
\* len(request_list). _unpack(None) raises TypeError, which nothing catches.
DrainGet(r) ==
    /\ rank_pc[r] = "drain"
    /\ IF DrainMore(Len(request_list[r])) /\ input_queue[r] # << >>
       THEN LET inputs == Head(input_queue[r])
            IN  /\ input_queue' = [ input_queue EXCEPT ![r] = Tail(@) ]
                /\ IF inputs = None
                   THEN /\ rank_pc' = [ rank_pc EXCEPT ![r] = "error_unpack" ]
                        /\ sentinel_read' = [ sentinel_read EXCEPT ![r] = TRUE ]
                        /\ UNCHANGED request_list
                   ELSE /\ request_list' =
                               [ request_list EXCEPT ![r] = Append(@, Unpack(inputs)) ]
                        /\ UNCHANGED <<rank_pc, sentinel_read>>
                /\ UNCHANGED local_counts
       ELSE /\ rank_pc' = [ rank_pc EXCEPT ![r] = "reduce" ]
            /\ local_counts' = [ local_counts EXCEPT ![r] = Append(@, Len(request_list[r])) ]
            /\ UNCHANGED <<input_queue, request_list, sentinel_read>>
    /\ UNCHANGED <<stream, delivered, num_max_requests, output_queue, invoked, timed_out,
                   catchup_reads>>
    /\ UNCHANGED engine_vars

\* lines 275-277: the collective completes once every rank has entered it
AllReduce ==
    /\ \A r \in Ranks : rank_pc[r] = "reduce"
    /\ num_max_requests' =
           [ r \in Ranks |-> AllReduceOp({ Len(request_list[q]) : q \in Ranks }) ]
    /\ rank_pc' = [ r \in Ranks |-> "catchup" ]
    /\ UNCHANGED <<stream, delivered, input_queue, request_list, output_queue,
                   local_counts, invoked, sentinel_read, timed_out, catchup_reads>>
    /\ UNCHANGED engine_vars

\* lines 278-281: one pass of the catch-up loop whose get(timeout=1.0) returns an item,
\* or the end of the loop
CatchUpGet(r) ==
    /\ rank_pc[r] = "catchup"
    /\ IF NeedsCatchUp(Len(request_list[r]), num_max_requests[r])
       THEN /\ input_queue[r] # << >>
            /\ catchup_reads' = [ catchup_reads EXCEPT ![r] = @ + 1 ]
            /\ LET inputs == Head(input_queue[r])
               IN  /\ input_queue' = [ input_queue EXCEPT ![r] = Tail(@) ]
                   /\ IF inputs = None
                      THEN /\ rank_pc' = [ rank_pc EXCEPT ![r] = "error_unpack" ]
                           /\ sentinel_read' = [ sentinel_read EXCEPT ![r] = TRUE ]
                           /\ UNCHANGED request_list
                      ELSE /\ request_list' =
                                  [ request_list EXCEPT ![r] = Append(@, Unpack(inputs)) ]
                           /\ UNCHANGED <<rank_pc, sentinel_read>>
       ELSE /\ rank_pc' = [ rank_pc EXCEPT ![r] = "generate" ]
            /\ UNCHANGED <<input_queue, request_list, sentinel_read, catchup_reads>>
    /\ UNCHANGED <<stream, delivered, num_max_requests, output_queue, local_counts,
                   invoked, timed_out>>
    /\ UNCHANGED engine_vars

\* line 281: the input_queue stayed empty for the whole timeout
CatchUpTimeout(r) ==
    /\ rank_pc[r] = "catchup"
    /\ NeedsCatchUp(Len(request_list[r]), num_max_requests[r])
    /\ input_queue[r] = << >>
    /\ timed_out' = [ timed_out EXCEPT ![r] = TRUE ]
    /\ catchup_reads' = [ catchup_reads EXCEPT ![r] = @ + 1 ]
    /\ rank_pc' = [ rank_pc EXCEPT ![r] = TimeoutOutcome ]
    /\ UNCHANGED <<stream, delivered, input_queue, request_list, num_max_requests,
                   output_queue, local_counts, invoked, sentinel_read>>
    /\ UNCHANGED engine_vars

\* lines 284-293: the engine runs on request_list and the outputs are forwarded
Generate(r) ==
    /\ rank_pc[r] = "generate"
    /\ invoked' = [ invoked EXCEPT ![r] = Append(@, request_list[r]) ]
    /\ output_queue' =
           [ output_queue EXCEPT
               ![r] = IF r \in OutputRanks
                      THEN PutOutputs(@, EngineOutputs(request_list[r]))
                      ELSE @ ]
    /\ request_list' = [ request_list EXCEPT ![r] = << >> ]
    /\ catchup_reads' = [ catchup_reads EXCEPT ![r] = 0 ]
    /\ rank_pc' = [ rank_pc EXCEPT ![r] = "get" ]
    /\ UNCHANGED <<stream, delivered, input_queue, num_max_requests, local_counts,
                   sentinel_read, timed_out>>
    /\ UNCHANGED engine_vars

\* every rank has built its engine (line 260) and waits at line 261
SyncInit ==
    /\ pc = "idle"
    /\ page_size = SetMin(PageSizes)
    /\ num_pages = NumPages
    /\ sequence_lengths = ResetLengths
    /\ input_positions = <<>>
    /\ page_assignments = <<>>
    /\ requests = <<>>
    /\ new_tokens = <<>>
    /\ idxs_stop = <<>>
    /\ idx = 0
    /\ outputs = <<>>
    /\ generated = <<>>
    /\ nForward = 0
    /\ pages_before = <<>>
    /\ stream \in Streams
    /\ delivered = [ r \in Ranks |-> 0 ]
    /\ input_queue = [ r \in Ranks |-> << >> ]
    /\ rank_pc = [ r \in Ranks |-> "get" ]
    /\ request_list = [ r \in Ranks |-> << >> ]
    /\ num_max_requests = [ r \in Ranks |-> 0 ]
    /\ output_queue = [ r \in Ranks |-> << >> ]
    /\ local_counts = [ r \in Ranks |-> << >> ]
    /\ invoked = [ r \in Ranks |-> << >> ]
    /\ sentinel_read = [ r \in Ranks |-> FALSE ]
    /\ timed_out = [ r \in Ranks |-> FALSE ]
    /\ catchup_reads = [ r \in Ranks |-> 0 ]

SyncNext ==
    \/ \E r \in Ranks : Deliver(r)
    \/ \E r \in Ranks : BlockingGet(r)
    \/ \E r \in Ranks : DrainGet(r)
    \/ AllReduce
    \/ \E r \in Ranks : CatchUpGet(r)
    \/ \E r \in Ranks : CatchUpTimeout(r)
    \/ \E r \in Ranks : Generate(r)

SyncSpec == SyncInit /\ [][SyncNext]_vars

-----------------------------------------------------------------------------
(* Claims about _assign_pages and generate_tokens_batched, checked under Spec *)

\* the sequences of the running call
Seqs == DOMAIN page_assignments

\* sequence_length + input_position of sequence b
TotalLen(b) == sequence_lengths[b] + input_positions[b]

\* a call is running or has just ended (its SequenceInfo and locals are in place)
InCall == pc \in {"assign", "forward", "post", "done", "error_pages", "assert_failed"}

\* C2: after every _assign_pages call each sequence owns exactly
\* max(pages owned before the call, ceil((sequence_length + input_position) / page_size))
\* pages. (pc = "forward" is the state in which _assign_pages has just returned.)
C2_PagesAreCeilOfTotal ==
    pc = "forward" =>
        \A b \in Seqs :
            Len(page_assignments[b]) =
                SetMax({ Len(pages_before[b]), CeilDiv(TotalLen(b), page_size) })

\* C3: at every step no page index is in the lists of two sequences, nor twice in one
\* list, and every assigned index is in 0 .. num_pages - 1.
C3_PagesExclusivelyOwned ==
    /\ \A b \in Seqs : \A i \in DOMAIN page_assignments[b] :
          /\ page_assignments[b][i] \in 0 .. num_pages - 1
          /\ \A j \in DOMAIN page_assignments[b] :
                i # j => page_assignments[b][i] # page_assignments[b][j]
    /\ \A b, c \in Seqs :
          b # c => Range(page_assignments[b]) \cap Range(page_assignments[c]) = {}

\* two sequences own pages, one of them two, after a decode step allocated
C3_Witness ==
    /\ pc = "forward"
    /\ idx >= 1
    /\ Len(page_assignments) = 2
    /\ Len(page_assignments[1]) = 2
    /\ Len(page_assignments[2]) = 1
    /\ Len(pages_before[1]) = 1

\* C4: within a call every step leaves each sequence's page list a prefix of its new
\* page list: pages are only appended, also for sequences that have stopped.
C4_PagesOnlyAppended ==
    [][ (pc # "idle") =>
          /\ DOMAIN page_assignments' = DOMAIN page_assignments
          /\ \A b \in Seqs : IsPrefix(page_assignments[b], page_assignments'[b]) ]_vars

\* a sequence that has already stopped was given one more page by a decode step
C4_Witness ==
    /\ pc = "forward"
    /\ \E b \in Seqs :
          /\ idxs_stop[b] < idx
          /\ Len(pages_before[b]) >= 1
          /\ Len(page_assignments[b]) > Len(pages_before[b])

\* the outputs claim C5 allows for a sequence whose sampled tokens g end, for the first
\* time, with a stop sequence
StoppedOutputs(g, stop_tokens, include) ==
    IF include THEN { g }
    ELSE { SubSeq(g, 1, Len(g) - Len(stop_tokens[k])) : k \in MatchedStops(g, stop_tokens) }

\* C5: from the first step s at which a sequence's sampled tokens end with a stop
\* sequence (of length L) on, its buffer is the first s+1 sampled tokens
\* (include_stop_str_in_output) or the first s+1-L of them, and so is its final output.
C5_StopsAtFirstMatch ==
    InCall =>
        \A b \in DOMAIN generated :
            MatchedStops(generated[b], sampling_params.stop_words) # {} =>
                /\ new_tokens[b] \in
                       StoppedOutputs(generated[b], sampling_params.stop_words,
                                      sampling_params.include_stop_str_in_output)
                /\ pc = "done" => outputs[b].token_ids = new_tokens[b]

\* stop_words [[7,8]], sampled tokens [8,8,7,8], exclusion: output [8,8], reason stop
C5_Witness ==
    /\ pc = "done"
    /\ Len(outputs) = 1
    /\ sampling_params.stop_words = << <<7, 8>> >>
    /\ ~sampling_params.include_stop_str_in_output
    /\ generated[1] = <<8, 8, 7, 8>>
    /\ outputs[1].token_ids = <<8, 8>>
    /\ outputs[1].finish_reason = "stop"

\* C8: a sequence whose sampled tokens never end with a stop sequence leaves the decode
\* loop with exactly max_tokens tokens after exactly max_tokens forward passes, and its
\* completion has max_tokens tokens and finish reason length.
C8_UnstoppedRunsToMaxTokens ==
    (pc \in {"post", "done"} /\ Len(requests) > 0) =>
        \A b \in DOMAIN generated :
            MatchedStops(generated[b], sampling_params.stop_words) = {} =>
                /\ Len(new_tokens[b]) = sampling_params.max_tokens
                /\ nForward = sampling_params.max_tokens
                /\ pc = "done" =>
                      /\ Len(outputs[b].token_ids) = sampling_params.max_tokens
                      /\ outputs[b].finish_reason = "length"

\* two sequences: the first stopped at step 0, the second never, and ran 3 steps
C8_Witness ==
    /\ pc = "done"
    /\ Len(outputs) = 2
    /\ sampling_params.max_tokens = 3
    /\ MatchedStops(generated[1], sampling_params.stop_words) # {}
    /\ Len(generated[1]) = 1
    /\ MatchedStops(generated[2], sampling_params.stop_words) = {}
    /\ outputs[2].finish_reason = "length"
    /\ nForward = 3

\* the pages sequence b lacks to hold its tokens
PagesLacking(b) ==
    SetMax({ 0, CeilDiv(TotalLen(b), page_size) - Len(page_assignments[b]) })

\* the pages all sequences lack
TotalLacking == SumSeq([ b \in Seqs |-> PagesLacking(b) ])

\* C9: an _assign_pages call that needs more pages than are free ends in an error; a call
\* that ends in an error leaves page_assignments as it was and is followed by no forward
\* pass or sampling; a call that returns leaves no sequence short of pages.
C9_ExhaustionFailsLoudly ==
    [][ /\ (pc = "assign" /\
            TotalLacking > Cardinality(FreePages(num_pages, page_assignments)))
            => pc' = "error_pages"
        /\ (pc = "assign" /\ pc' = "error_pages")
            => UNCHANGED <<page_assignments, sequence_lengths, input_positions,
                           nForward, generated, new_tokens, outputs>>
        /\ (pc = "assign" /\ pc' # "error_pages")
            => \A b \in Seqs : Len(page_assignments'[b]) * page_size >= TotalLen(b)
        /\ pc = "error_pages" => UNCHANGED vars ]_vars

\* the pool ran out in a decode step, after a forward pass, while sequences own pages
C9_Witness ==
    /\ pc = "error_pages"
    /\ nForward >= 1
    /\ \E b \in Seqs : Len(page_assignments[b]) >= 1
    /\ FreePages(num_pages, page_assignments) # {}

\* the requests differ in their sampling parameters, or one has best_of # 1
ParamsUnsupported(reqs) ==
    \/ \E i, j \in DOMAIN reqs : reqs[i].sampling_params # reqs[j].sampling_params
    \/ \E i \in DOMAIN reqs : reqs[i].sampling_params.best_of # 1

\* C10: a call whose requests differ in their sampling parameters, or have best_of # 1,
\* fails at once: the SequenceInfo is left as it was, no page is assigned, no forward pass
\* runs and no output is produced, then or later.
C10_UnsupportedParamsRejected ==
    [][ /\ (pc = "idle" /\ ParamsUnsupported(requests'))
            => /\ pc' = "rejected"
               /\ UNCHANGED <<sequence_lengths, input_positions, page_assignments,
                              nForward, generated, new_tokens, outputs>>
        /\ pc = "rejected" => UNCHANGED vars ]_vars

\* a call with two requests that differ in max_tokens was rejected on an engine whose
\* SequenceInfo still holds the pages of the call before
C10_Witness ==
    /\ pc = "rejected"
    /\ Len(requests) = 2
    /\ requests[1].sampling_params.best_of = 1
    /\ requests[1].sampling_params # requests[2].sampling_params
    /\ Len(page_assignments) = 2
    /\ Len(page_assignments[1]) >= 1
    /\ outputs = <<>>

-----------------------------------------------------------------------------
(* Claims about _run_engine, checked under SyncSpec *)

RECURSIVE Flatten(_)
Flatten(ss) == IF ss = << >> THEN << >> ELSE Head(ss) \o Flatten(Tail(ss))

\* the requests submitted before the sentinel (or all of them, without one)
SubmittedRequests == [ i \in 1 .. Cardinality({ j \in DOMAIN stream : stream[j] # None }) |-> i ]

\* rank r has entered the all_reduce of a round whose generate call it has not made yet
InRound(r) == Len(local_counts[r]) > Len(invoked[r])

\* the largest count the ranks collected locally in round k
AgreedMax(k) == SetMax({ local_counts[q][k] : q \in Ranks })

\* C1: in every round every rank that calls generate_tokens_batched does so with as many
\* requests as the largest number any rank collected locally in that round (so all with
\* the same number), and a rank leaves the round in no other way than by that call or by
\* a catch-up read that times out.
C1_RanksAgreeOnMaxBatch ==
    \A r \in Ranks :
        /\ \A k \in DOMAIN invoked[r] :
              /\ \A q \in Ranks : k \in DOMAIN local_counts[q]
              /\ Len(invoked[r][k]) = AgreedMax(k)
        /\ InRound(r) =>
              /\ Len(local_counts[r]) = Len(invoked[r]) + 1
              /\ rank_pc[r] \in {"reduce", "catchup", "generate", "error_timeout"}
              /\ rank_pc[r] = "error_timeout" => timed_out[r]
              /\ rank_pc[r] = "generate" =>
                    /\ \A q \in Ranks : Len(local_counts[q]) >= Len(local_counts[r])
                    /\ Len(request_list[r]) = AgreedMax(Len(local_counts[r]))

\* round 1: rank 0 collected 1 request, rank 1 collected 3, and both ran 3
C1_Witness ==
    /\ Len(invoked[0]) >= 1
    /\ Len(invoked[1]) >= 1
    /\ local_counts[0][1] = 1
    /\ local_counts[1][1] = 3
    /\ Len(invoked[0][1]) = 3
    /\ Len(invoked[1][1]) = 3

\* C6: a rank that has read the sentinel, wherever it read it, has ended its loop without
\* an error, has decoded every request queued before the sentinel and forwarded its
\* result, and leaves no peer waiting in the collective reduction.
C6_SentinelShutsDownCleanly ==
    \A r \in Ranks :
        sentinel_read[r] =>
            /\ rank_pc[r] = "exited"
            /\ Flatten(invoked[r]) = SubmittedRequests
            /\ r \in OutputRanks => output_queue[r] = EngineOutputs(SubmittedRequests)
            /\ \A q \in Ranks : rank_pc[q] # "reduce"

\* the number of requests in the batches bs
RECURSIVE SumLens(_)
SumLens(bs) == IF bs = << >> THEN 0 ELSE Len(Head(bs)) + SumLens(Tail(bs))

\* C7: a rank whose catch-up read timed out is in the fatal state from then on, short of
\* the agreed size; it made no generate call and put nothing on the output queue for
\* that round, and took nothing more from its input queue; and no rank calls
\* generate_tokens_batched with fewer requests than the agreed size.
C7_TimeoutIsFatal ==
    \A r \in Ranks :
        /\ timed_out[r] =>
              /\ rank_pc[r] = "error_timeout"
              /\ Len(request_list[r]) < num_max_requests[r]
              /\ Len(invoked[r]) = Len(local_counts[r]) - 1
              /\ Len(output_queue[r]) = (IF r \in OutputRanks THEN SumLens(invoked[r]) ELSE 0)
              /\ delivered[r] =
                     Len(input_queue[r]) + SumLens(invoked[r]) + Len(request_list[r])
        /\ rank_pc[r] = "generate" => Len(request_list[r]) >= num_max_requests[r]

\* the rank with the output queue timed out in its second round, one request short, and
\* the request it waited for arrived afterwards
C7_Witness ==
    /\ timed_out[0]
    /\ Len(invoked[0]) = 1
    /\ Len(output_queue[0]) = 1
    /\ Len(request_list[0]) = 1
    /\ num_max_requests[0] = 2
    /\ input_queue[0] # << >>

\* the number of requests rank r has taken from its input queue so far
NumRead(r) == delivered[r] - Len(input_queue[r]) - (IF sentinel_read[r] THEN 1 ELSE 0)

\* rank r has stopped on an error
Fatal(r) == rank_pc[r] \in {"error_unpack", "error_timeout"}

\* C11: the output queue of a rank that has one holds one completion list per request
\* the rank has read and decoded, in the order the requests were read, none missing and
\* none twice; between rounds and after a clean exit that is every request the rank has
\* read, and inside a round every request but those of the batch being collected.
C11_OutputsFollowReadOrder ==
    \A r \in OutputRanks :
        /\ \A i \in DOMAIN output_queue[r] : output_queue[r][i] = << [request |-> i] >>
        /\ Len(output_queue[r]) + Len(request_list[r]) = NumRead(r)
        /\ ~Fatal(r) /\ rank_pc[r] \in {"get", "exited"} =>
               Len(output_queue[r]) = NumRead(r)

\* rank 0 forwarded a batch of two requests and then a batch of one
C11_Witness ==
    /\ Len(invoked[0]) = 2
    /\ Len(invoked[0][1]) = 2
    /\ Len(invoked[0][2]) = 1
    /\ Len(output_queue[0]) = 3
    /\ rank_pc[0] = "get"

\* C12: a rank that is about to call generate_tokens_batched made, in its catch-up loop,
\* as many reads with a timeout as the agreed maximum of the round exceeds the number it
\* collected locally (so none when it collected the maximum), and a rank still in the
\* loop, or stopped in it, made no more than that.
C12_CatchUpReadsAreTheShortfall ==
    \A r \in Ranks :
        InRound(r) /\ rank_pc[r] \in {"catchup", "generate", "error_timeout", "error_unpack"} =>
            LET k == Len(local_counts[r])
                shortfall == AgreedMax(k) - local_counts[r][k]
            IN  /\ catchup_reads[r] <= shortfall
                /\ rank_pc[r] = "generate" =>
                       /\ catchup_reads[r] = shortfall
                       /\ Len(request_list[r]) = local_counts[r][k] + catchup_reads[r]

\* rank 0 drained 3 requests and rank 1 drained 2: both are about to decode 3, rank 1
\* after exactly one read with a timeout and rank 0 after none
C12_Witness ==
    /\ rank_pc[0] = "generate"
    /\ rank_pc[1] = "generate"
    /\ local_counts[0] = << 3 >>
    /\ local_counts[1] = << 2 >>
    /\ catchup_reads[0] = 0
    /\ catchup_reads[1] = 1
    /\ Len(request_list[0]) = 3
    /\ Len(request_list[1]) = 3

\* C15: the ranks are sent the same stream, and in every round they pass the same list
\* of requests to generate_tokens_batched; the requests a rank has passed or is
\* collecting are the first ones of the stream in the order sent, none skipped, moved or
\* read twice.
C15_RanksDecodeSameBatches ==
    \A r \in Ranks :
        /\ \A q \in Ranks :
              \A k \in DOMAIN invoked[r] \cap DOMAIN invoked[q] : invoked[r][k] = invoked[q][k]
        /\ IsPrefix(Flatten(invoked[r]) \o request_list[r], SubmittedRequests)

\* both ranks ran two rounds on the same batches although they had collected different
\* numbers of requests locally in the first
C15_Witness ==
    /\ Len(invoked[0]) = 2
    /\ invoked[1] = invoked[0]
    /\ local_counts[0][1] # local_counts[1][1]
    /\ invoked[0][1] # << >>
    /\ invoked[0][2] # << >>

\* a step of rank r's non-blocking drain that adds a request
DrainTakes(r) == rank_pc[r] = "drain" /\ request_list'[r] # request_list[r]

\* a step of rank r's non-blocking drain on an empty input queue
DrainFindsEmpty(r) ==
    /\ rank_pc[r] = "drain"
    /\ input_queue[r] = << >>
    /\ <<rank_pc[r], local_counts[r]>>' # <<rank_pc[r], local_counts[r]>>

\* C16: a rank never holds, reports to the reduction or decodes more than max_batch_size
\* requests; the drain takes a request only from a non-empty queue while it is below
\* max_batch_size, and on an empty queue it ends at once with what it has.
C16_BatchNeverExceedsMax ==
    /\ [](\A r \in Ranks :
             /\ Len(request_list[r]) <= MaxBatchSize
             /\ \A k \in DOMAIN local_counts[r] : local_counts[r][k] <= MaxBatchSize
             /\ \A k \in DOMAIN invoked[r] : Len(invoked[r][k]) <= MaxBatchSize
             /\ rank_pc[r] \in {"catchup", "generate"} => num_max_requests[r] <= MaxBatchSize)
    /\ [][\A r \in Ranks :
             /\ DrainTakes(r) =>
                   /\ input_queue[r] # << >>
                   /\ Len(request_list[r]) < MaxBatchSize
                   /\ request_list'[r] = Append(request_list[r], Unpack(Head(input_queue[r])))
             /\ DrainFindsEmpty(r) =>
                   /\ rank_pc'[r] = "reduce"
                   /\ request_list'[r] = request_list[r]
                   /\ local_counts'[r] = Append(local_counts[r], Len(request_list[r]))]_vars

\* a rank ended its drain with max_batch_size requests while another request was waiting
\* in its input queue
C16_Witness ==
    \E r \in Ranks :
        /\ rank_pc[r] = "reduce"
        /\ Len(request_list[r]) = MaxBatchSize
        /\ input_queue[r] # << >>
        /\ Head(input_queue[r]) # None

\* a decode call on a non-empty batch is inside its loop
InLoop == pc \in {"assign", "forward", "error_pages"}

\* a decode call on a non-empty batch has left its loop
LoopEnded == pc \in {"post", "done", "assert_failed"} /\ Len(requests) > 0

\* C13: the sanity check after the decode loop never fails: when the loop has ended every
\* sequence's buffer holds exactly its stop index + 1 tokens, whatever max_tokens, the stop
\* sequences, include_stop_str_in_output and the sampled tokens are.
C13_SanityCheckNeverFails ==
    /\ pc # "assert_failed"
    /\ LoopEnded => \A b \in DOMAIN idxs_stop : Len(new_tokens[b]) = idxs_stop[b] + 1

\* the loop ended with one sequence cut back by an excluded stop sequence and another
\* that never stopped
C13_Witness ==
    /\ pc = "post"
    /\ Len(requests) = 2
    /\ ~sampling_params.include_stop_str_in_output
    /\ \E b \in DOMAIN generated :
          /\ MatchedStops(generated[b], sampling_params.stop_words) # {}
          /\ Len(new_tokens[b]) < Len(generated[b])
          /\ Len(new_tokens[b]) > 0
    /\ \E b \in DOMAIN generated :
          /\ MatchedStops(generated[b], sampling_params.stop_words) = {}
          /\ Len(new_tokens[b]) = sampling_params.max_tokens

\* C14: the decode loop makes at most max_tokens forward passes, one per step index; it
\* goes on to step i+1 only if some sequence's stop index is beyond i, and when it has
\* ended at step i every sequence's stop index is at most i.
C14_LoopEndsAtFirstAllStopped ==
    /\ InLoop =>
          /\ idx < sampling_params.max_tokens
          /\ nForward = idx
          /\ idx >= 1 => \E b \in DOMAIN idxs_stop : idxs_stop[b] > idx - 1
    /\ LoopEnded =>
          /\ nForward <= sampling_params.max_tokens
          /\ sampling_params.max_tokens > 0 =>
                /\ nForward = idx + 1
                /\ \A b \in DOMAIN idxs_stop : idxs_stop[b] <= idx
          /\ sampling_params.max_tokens = 0 => nForward = 0

\* two sequences stopped at different steps and the loop ended at the later one, before
\* max_tokens steps
C14_Witness ==
    /\ pc = "post"
    /\ Len(requests) = 2
    /\ sampling_params.include_stop_str_in_output
    /\ idxs_stop[1] = 0
    /\ idxs_stop[2] = 1
    /\ idx = 1
    /\ nForward = 2
    /\ sampling_params.max_tokens = 3

\* C17: when the forward pass is invoked at step idx every sequence of the batch, stopped
\* or not, has prompt length + idx tokens as sequence_length + input_position and owns
\* pages for all of them.
C17_PagesCoverEverySequence ==
    pc = "forward" =>
        \A b \in Seqs :
            /\ TotalLen(b) = requests[b].prompt_len + idx
            /\ Len(page_assignments[b]) * page_size >= TotalLen(b)

\* the forward pass of step 2 with a sequence that stopped at step 0 and was given a
\* further page for this step
C17_Witness ==
    /\ pc = "forward"
    /\ idx = 2
    /\ \E b \in Seqs :
          /\ idxs_stop[b] = 0
          /\ Len(new_tokens[b]) = 1
          /\ Len(page_assignments[b]) > Len(pages_before[b])
          /\ Len(pages_before[b]) > 0

\* the pages that hold every sequence's tokens: the sum of ceil(total length / page_size)
PagesNeeded == SumSeq([ b \in Seqs |-> CeilDiv(TotalLen(b), page_size) ])

\* C18: _assign_pages ends in the exhaustion error only if the pool cannot hold every
\* sequence's tokens, i.e. only if the sum over the sequences of
\* ceil((sequence_length + input_position) / page_size) exceeds num_pages.
C18_ExhaustionOnlyWhenUndersized ==
    pc = "error_pages" => PagesNeeded > num_pages

\* C19: a completion's finish reason is stop exactly if the sequence's sampled tokens
\* ended with a stop sequence during the call, and length exactly if they never did and
\* max_tokens tokens were generated.
C19_StopIffMatched ==
    (pc = "done" /\ Len(requests) > 0) =>
        \A b \in DOMAIN outputs :
            LET matched == MatchedStops(generated[b], sampling_params.stop_words) # {}
            IN  /\ outputs[b].finish_reason = "stop" <=> matched
                /\ outputs[b].finish_reason = "length" <=>
                       (~matched /\ Len(generated[b]) = sampling_params.max_tokens)

\* the sequence's sampled tokens ended with a stop sequence at the last step, index
\* max_tokens - 1, and the stop sequence stays in the output
MatchedAtLastStepIncluded(b) ==
    /\ MatchedStops(generated[b], sampling_params.stop_words) # {}
    /\ Len(generated[b]) = sampling_params.max_tokens
    /\ sampling_params.include_stop_str_in_output

\* C19 as the code has it: the finish reason is stop exactly if the output is shorter
\* than max_tokens, that is, exactly if a stop sequence matched, except for a match at
\* the last step with include_stop_str_in_output, which is reported as length.
C19_StopIffShorterThanMaxTokens ==
    (pc = "done" /\ Len(requests) > 0) =>
        \A b \in DOMAIN outputs :
            LET matched == MatchedStops(generated[b], sampling_params.stop_words) # {}
            IN  /\ outputs[b].finish_reason \in {"stop", "length"}
                /\ outputs[b].finish_reason = "stop" <=>
                       Len(outputs[b].token_ids) < sampling_params.max_tokens
                /\ outputs[b].finish_reason = "stop" <=>
                       (matched /\ ~MatchedAtLastStepIncluded(b))
                /\ outputs[b].finish_reason = "length" =>
                       Len(generated[b]) = sampling_params.max_tokens

\* two completions of one call with max_tokens 2 and the stop sequence kept: the first
\* matched at step 0 and reports stop, the second matched at the last step and reports
\* length
C19_Witness ==
    /\ pc = "done"
    /\ Len(outputs) = 2
    /\ sampling_params.max_tokens = 2
    /\ sampling_params.include_stop_str_in_output
    /\ generated[1] = << 8 >>
    /\ outputs[1].finish_reason = "stop"
    /\ generated[2] = << 7, 8 >>
    /\ MatchedAtLastStepIncluded(2)
    /\ outputs[2].finish_reason = "length"

\* stop_seq occurs in out as a run of consecutive tokens that ends at position last or
\* before it
OccursUpTo(stop_seq, out, last) ==
    \E j \in 1 .. Len(out) :
        /\ j + Len(stop_seq) - 1 <= last
        /\ SubSeq(out, j, j + Len(stop_seq) - 1) = stop_seq

\* no non-empty stop sequence ends before the last token of out, and none occurs in out
\* at all when the stop sequence is to be left out of the output
FreeOfStops(out, stop_tokens, include) ==
    \A k \in DOMAIN stop_tokens :
        stop_tokens[k] # << >> =>
            /\ ~OccursUpTo(stop_tokens[k], out, Len(out) - 1)
            /\ ~include => ~OccursUpTo(stop_tokens[k], out, Len(out))

\* a step of a running call leaves the buffer of every sequence whose sampled tokens
\* have ended with a stop sequence as it is
StoppedBuffersKept ==
    pc \in {"assign", "forward", "post"} =>
        \A b \in DOMAIN generated :
            MatchedStops(generated[b], sampling_params.stop_words) # {} =>
                new_tokens'[b] = new_tokens[b]

\* C20: no stop sequence ends before the last token of a sequence's buffer or of its
\* final output, and none occurs in them at all when include_stop_str_in_output is
\* false; and from the step at which a sequence's sampled tokens ended with a stop
\* sequence on, no later step of the call changes its buffer.
C20_OutputHoldsNoEarlierStop ==
    /\ []((InCall /\ Len(requests) > 0) =>
             /\ \A b \in DOMAIN new_tokens :
                   FreeOfStops(new_tokens[b], sampling_params.stop_words,
                               sampling_params.include_stop_str_in_output)
             /\ pc = "done" =>
                   \A b \in DOMAIN outputs :
                       FreeOfStops(outputs[b].token_ids, sampling_params.stop_words,
                                   sampling_params.include_stop_str_in_output))
    /\ [][StoppedBuffersKept]_vars

\* stop_words [[8],[7,8]] left out of the output: the first sequence sampled [7,8] and
\* ended as [7] at step 1, the second sampled [7,7,7] and ran all 3 steps
C20_Witness ==
    /\ pc = "done"
    /\ Len(outputs) = 2
    /\ sampling_params.stop_words = << <<8>>, <<7, 8>> >>
    /\ ~sampling_params.include_stop_str_in_output
    /\ generated[1] = << 7, 8 >>
    /\ outputs[1].token_ids = << 7 >>
    /\ generated[2] = << 7, 7, 7 >>
    /\ outputs[2].token_ids = << 7, 7, 7 >>
    /\ nForward = 3

====
